---- MODULE Spec2Model ----
(***************************************************************************)
(* Model of Wiki_Hunt.py: the first-link walk engine                       *)
(* (wikipedia_first_link_walk), the persistent first-link cache and the    *)
(* experiment driver (run_experiment), the main block that reports and     *)
(* closes the cache, and the pure functions normalize_url and              *)
(* get_first_valid_link.                                                   *)
(*                                                                         *)
(* A URL is a sequence of tokens; the token "#" starts the fragment.       *)
(* Python's None is the one-token sequence None, whose token is no URL     *)
(* token.                                                                  *)
(***************************************************************************)
EXTENDS Integers, Sequences, FiniteSets, TLC

\* Largest of the small step limits (MAX_STEPS) the model configures.
MaxStepsBound == 4

\* Number of walks run_experiment is asked for: line 24's N_RUNS = 5000, bounded.
N_RUNS == 2

None == <<"None">>

WIKI_BASE == "https://en.wikipedia.org"

TARGET_PAGE == "Philosophy"

\* The article names of the modelled encyclopedia; TARGET_PAGE is one of them.
PageNames == {TARGET_PAGE, "A", "B"}

\* urljoin(WIKI_BASE, "/wiki/<page>")
PageUrl(page) == <<WIKI_BASE, "/wiki/", page>>

\* normalize_url written with rsplit: url.rsplit("#", 1)[0] cuts at the
\* last "#".
normalize_url_rsplit(url) ==
    IF url = None THEN None
    ELSE IF \E k \in 1..Len(url) : url[k] = "#"
         THEN LET last == CHOOSE k \in 1..Len(url) :
                              /\ url[k] = "#"
                              /\ \A j \in (k + 1)..Len(url) : url[j] # "#"
              IN  SubSeq(url, 1, last - 1)
         ELSE url

\* def normalize_url(url): url.split("#")[0], None for None
normalize_url(url) ==
    IF url = None THEN None
    ELSE IF \E k \in 1..Len(url) : url[k] = "#"
         THEN LET first == CHOOSE k \in 1..Len(url) :
                               /\ url[k] = "#"
                               /\ \A j \in 1..(k - 1) : url[j] # "#"
              IN  SubSeq(url, 1, first - 1)
         ELSE url

\* target_url = normalize_url(urljoin(WIKI_BASE, "/wiki/Philosophy"))
target_url == normalize_url(PageUrl(TARGET_PAGE))

\* Normalized article references.
Articles == {PageUrl(p) : p \in PageNames}

\* Articles whose page a walk can resolve: the target is returned on before
\* its links are looked up.
Resolvable == Articles \ {target_url}

\* What get_first_valid_link can return for a page: an article or None.
LinkResults == Articles \cup {None}

\* response.url of the Special:Random request: an article address, possibly
\* carrying a fragment.
RandomUrls == Articles \cup {PageUrl("A") \o <<"#", "sec">>}

\* The configured values of line 23's MAX_STEPS: the small limits, at which
\* the cut-off meets the walks of this encyclopedia, and a limit of 10, which
\* none of them reaches.
StepLimits == (1..MaxStepsBound) \cup {10}

\* The terminal states of one walk.
WalkEnds == {"SUCCESS", "CYCLE", "DEAD_END", "FETCH_ERROR", "TIMEOUT"}

\* All partial maps from Resolvable to LinkResults (the shelve's contents).
CacheStates ==
    UNION {[D -> LinkResults] : D \in SUBSET Resolvable}

VARIABLES
    MAX_STEPS,          \* the configured step limit
    links,              \* what get_first_valid_link(response.text) yields per page
    FIRST_LINK_CACHE,   \* the shelve: article -> link result
    results,            \* run_experiment's list of outcome records
    i,                  \* run_experiment's loop index (0-based)
    pc,                 \* "call" | "loop" | "done" | "analyze" | "plot" |
                        \* "finally" | "exit"; "pure" while a function is studied
    visited,            \* the walk's visited set
    steps,              \* the walk's step counter
    current_url,        \* the walk's current article
    gets,               \* number of session.get(current_url) issued per article
    fetched,            \* number of those requests that returned a page
    ended,              \* per finished walk: the terminal state it ended in
    seeds,              \* per started walk: its seed article, None if the seed fetch failed
    closes,             \* number of FIRST_LINK_CACHE.close() calls
    csv_rows,           \* the rows save_results_to_csv wrote
    stats,              \* what analyze_results printed: <<>> or one record
    raised,             \* the exception the main block's try was left by, "none" if none
    arg,                \* the argument of the pure function under study
    ret                 \* the values it returned, in call order

vars == <<MAX_STEPS, links, FIRST_LINK_CACHE, results, i, pc, visited, steps,
          current_url, gets, fetched, ended, seeds, closes, csv_rows, stats,
          raised, arg, ret>>

config == <<MAX_STEPS, links>>

\* The main block's own state and the state of the function studies: no step of a
\* walk touches them.
outer == <<closes, csv_rows, stats, raised, arg, ret>>

Init ==
    /\ MAX_STEPS \in StepLimits
    /\ links \in [Resolvable -> LinkResults]
    /\ FIRST_LINK_CACHE \in CacheStates
    /\ results = <<>>
    /\ i = 0
    /\ pc = "call"
    /\ visited = {}
    /\ steps = 0
    /\ current_url = None
    /\ gets = [a \in Resolvable |-> 0]
    /\ fetched = [a \in Resolvable |-> 0]
    /\ ended = <<>>
    /\ seeds = <<>>
    /\ closes = 0
    /\ csv_rows = <<>>
    /\ stats = <<>>
    /\ raised = "none"
    /\ arg = None
    /\ ret = <<>>

\* A lookup by truthiness, `if FIRST_LINK_CACHE.get(current_url):`, takes a
\* stored None for a missing key.
CacheHitTruthy(url) ==
    /\ url \in DOMAIN FIRST_LINK_CACHE
    /\ FIRST_LINK_CACHE[url] # None

\* `current_url in FIRST_LINK_CACHE`
CacheHit(url) == url \in DOMAIN FIRST_LINK_CACHE

\* A store guarded by `if next_link:` leaves dead ends out of the cache.
CacheStoreSkipsNone(url, value) ==
    IF value = None THEN FIRST_LINK_CACHE
    ELSE [a \in (DOMAIN FIRST_LINK_CACHE) \cup {url} |->
             IF a = url THEN value ELSE FIRST_LINK_CACHE[a]]

\* `FIRST_LINK_CACHE[current_url] = next_link`
CacheStore(url, value) ==
    [a \in (DOMAIN FIRST_LINK_CACHE) \cup {url} |->
        IF a = url THEN value ELSE FIRST_LINK_CACHE[a]]

\* The loop test written `steps <= MAX_STEPS`.
LoopConditionInclusive(n) == n <= MAX_STEPS

\* `while steps < MAX_STEPS`
LoopCondition(n) == n < MAX_STEPS

\* The record without line 174's `None if reached else`.
OutcomeKeepsTerminal(reached, pages, terminal) ==
    [run_id             |-> i + 1,
     reached_philosophy |-> reached,
     pages_visited      |-> pages,
     hit_max_steps      |-> pages >= MAX_STEPS,
     terminal_page      |-> terminal]

\* The record run_experiment appends for a walk's return value.
Outcome(reached, pages, terminal) ==
    [run_id             |-> i + 1,
     reached_philosophy |-> reached,
     pages_visited      |-> pages,
     hit_max_steps      |-> pages >= MAX_STEPS,
     terminal_page      |-> IF reached THEN None ELSE terminal]

\* `return reached, pages, terminal` and the rest of the driver's iteration.
Return(reached, pages, terminal, kind) ==
    /\ results' = Append(results, Outcome(reached, pages, terminal))
    /\ ended' = Append(ended, kind)
    /\ steps' = pages
    /\ i' = i + 1
    /\ pc' = IF i + 1 < N_RUNS THEN "call" ELSE "done"

\* Lines 106-117: the walk starts and the Special:Random request raises.
WalkSeedFail ==
    /\ pc = "call"
    /\ visited' = {}
    /\ current_url' = None
    /\ seeds' = Append(seeds, None)
    /\ Return(FALSE, 0, None, "FETCH_ERROR")
    /\ UNCHANGED <<config, outer, FIRST_LINK_CACHE, gets, fetched>>

\* The seed stage with `visited` kept from the walk before (a module-level
\* set instead of line 107's local one).
WalkSeedKeepsVisited(raw) ==
    /\ pc = "call"
    /\ visited' = visited
    /\ current_url' = normalize_url(raw)
    /\ steps' = 0 + 1
    /\ seeds' = Append(seeds, normalize_url(raw))
    /\ pc' = "loop"
    /\ UNCHANGED <<config, outer, FIRST_LINK_CACHE, results, i, gets, fetched, ended>>

\* The seed stage without line 120's `steps += 1`.
WalkSeedUncounted(raw) ==
    /\ pc = "call"
    /\ visited' = {}
    /\ current_url' = normalize_url(raw)
    /\ steps' = 0
    /\ seeds' = Append(seeds, normalize_url(raw))
    /\ pc' = "loop"
    /\ UNCHANGED <<config, outer, FIRST_LINK_CACHE, results, i, gets, fetched, ended>>

\* Lines 106-121: the walk starts and the Special:Random request answers
\* with the address raw.
WalkSeed(raw) ==
    /\ pc = "call"
    /\ visited' = {}
    /\ current_url' = normalize_url(raw)
    /\ steps' = 0 + 1
    /\ seeds' = Append(seeds, normalize_url(raw))
    /\ pc' = "loop"
    /\ UNCHANGED <<config, outer, FIRST_LINK_CACHE, results, i, gets, fetched, ended>>

\* Line 123 false, line 155: the loop is left by its condition.
WalkTimeout ==
    /\ pc = "loop"
    /\ ~LoopCondition(steps)
    /\ Return(FALSE, steps, current_url, "TIMEOUT")
    /\ UNCHANGED <<config, outer, FIRST_LINK_CACHE, visited, current_url, gets, fetched, seeds>>

\* Lines 125-126.
WalkSuccess ==
    /\ pc = "loop"
    /\ LoopCondition(steps)
    /\ current_url = target_url
    /\ Return(TRUE, steps, current_url, "SUCCESS")
    /\ UNCHANGED <<config, outer, FIRST_LINK_CACHE, visited, current_url, gets, fetched, seeds>>

\* Lines 128-129.
WalkCycle ==
    /\ pc = "loop"
    /\ LoopCondition(steps)
    /\ current_url # target_url
    /\ current_url \in visited
    /\ Return(FALSE, steps, current_url, "CYCLE")
    /\ UNCHANGED <<config, outer, FIRST_LINK_CACHE, visited, current_url, gets, fetched, seeds>>

\* The loop body without line 131's `visited.add(current_url)`.
BodyEnteredUnmarked ==
    /\ pc = "loop"
    /\ LoopCondition(steps)
    /\ current_url # target_url
    /\ current_url \notin visited
    /\ visited' = visited

\* The loop body gets past the target and cycle tests (lines 125-131).
BodyEntered ==
    /\ pc = "loop"
    /\ LoopCondition(steps)
    /\ current_url # target_url
    /\ current_url \notin visited
    /\ visited' = visited \cup {current_url}

\* The step counted after the dead-end test instead of before it.
ResolvedCountsAfterTest(next_link) ==
    IF next_link = None
    THEN /\ Return(FALSE, steps, current_url, "DEAD_END")
         /\ UNCHANGED current_url
    ELSE /\ steps' = steps + 1
         /\ current_url' = next_link
         /\ UNCHANGED <<results, i, pc, ended>>

\* Lines 148-153: count the step, then end on None or move to next_link.
Resolved(next_link) ==
    IF next_link = None
    THEN /\ Return(FALSE, steps + 1, current_url, "DEAD_END")
         /\ UNCHANGED current_url
    ELSE /\ steps' = steps + 1
         /\ current_url' = next_link
         /\ UNCHANGED <<results, i, pc, ended>>

\* A cache hit that does not count the step (`steps += 1` inside the else
\* branch).
WalkCacheHitUncounted ==
    /\ BodyEntered
    /\ CacheHit(current_url)
    /\ IF FIRST_LINK_CACHE[current_url] = None
       THEN /\ Return(FALSE, steps, current_url, "DEAD_END")
            /\ UNCHANGED current_url
       ELSE /\ current_url' = FIRST_LINK_CACHE[current_url]
            /\ UNCHANGED <<results, i, pc, ended, steps>>
    /\ UNCHANGED <<config, outer, FIRST_LINK_CACHE, gets, fetched, seeds>>

\* A cache hit that stores the page's current first link again.
WalkCacheHitRefreshes ==
    /\ BodyEntered
    /\ CacheHit(current_url)
    /\ FIRST_LINK_CACHE' = CacheStore(current_url, links[current_url])
    /\ Resolved(FIRST_LINK_CACHE[current_url])
    /\ UNCHANGED <<config, outer, gets, fetched, seeds>>

\* Lines 134-135 and 148-153: the link result is read from the cache.
WalkCacheHit ==
    /\ BodyEntered
    /\ CacheHit(current_url)
    /\ Resolved(FIRST_LINK_CACHE[current_url])
    /\ UNCHANGED <<config, outer, FIRST_LINK_CACHE, gets, fetched, seeds>>

\* A failed article request recorded in the cache as "no link".
WalkFetchFailCachesNone ==
    /\ BodyEntered
    /\ ~CacheHit(current_url)
    /\ gets' = [gets EXCEPT ![current_url] = @ + 1]
    /\ FIRST_LINK_CACHE' = CacheStore(current_url, None)
    /\ Return(FALSE, steps, current_url, "FETCH_ERROR")
    /\ UNCHANGED <<config, outer, current_url, fetched, seeds>>

\* The article request without its try/except: the exception leaves
\* run_experiment and no record is appended.
WalkFetchFailEscapes ==
    /\ BodyEntered
    /\ ~CacheHit(current_url)
    /\ gets' = [gets EXCEPT ![current_url] = @ + 1]
    /\ pc' = "done"
    /\ UNCHANGED <<config, outer, FIRST_LINK_CACHE, results, i, steps, current_url,
                   fetched, ended, seeds>>

\* Lines 138-142: the article request raises.
WalkFetchFail ==
    /\ BodyEntered
    /\ ~CacheHit(current_url)
    /\ gets' = [gets EXCEPT ![current_url] = @ + 1]
    /\ Return(FALSE, steps, current_url, "FETCH_ERROR")
    /\ UNCHANGED <<config, outer, FIRST_LINK_CACHE, current_url, fetched, seeds>>

\* Lines 138-153: the article is fetched, its first link extracted and stored.
WalkFetch ==
    /\ BodyEntered
    /\ ~CacheHit(current_url)
    /\ gets' = [gets EXCEPT ![current_url] = @ + 1]
    /\ fetched' = [fetched EXCEPT ![current_url] = @ + 1]
    /\ FIRST_LINK_CACHE' = CacheStore(current_url, links[current_url])
    /\ Resolved(links[current_url])
    /\ UNCHANGED <<config, outer, seeds>>

Next ==
    \/ WalkSeedFail
    \/ \E raw \in RandomUrls : WalkSeed(raw)
    \/ WalkTimeout
    \/ WalkSuccess
    \/ WalkCycle
    \/ WalkCacheHit
    \/ WalkFetchFail
    \/ WalkFetch

Spec == Init /\ [][Next]_vars

\* The walk is sequential code: a step that can be taken is taken.
FairSpec == Spec /\ WF_vars(Next)

(***************************************************************************)
(* The main block, lines 252-259, with the failures of its environment: a  *)
(* cache write that raises, a CSV file that cannot be opened, a plot that  *)
(* cannot be shown, and KeyboardInterrupt.                                 *)
(***************************************************************************)

\* Line 145 raises (the shelve cannot write): the exception leaves the walk
\* and run_experiment, whose `results` list main never receives.
StoreFail ==
    /\ BodyEntered
    /\ ~CacheHit(current_url)
    /\ gets' = [gets EXCEPT ![current_url] = @ + 1]
    /\ fetched' = [fetched EXCEPT ![current_url] = @ + 1]
    /\ raised' = "cache"
    /\ pc' = "finally"
    /\ UNCHANGED <<config, FIRST_LINK_CACHE, results, i, steps, current_url,
                   ended, seeds, closes, csv_rows, stats, arg, ret>>

\* KeyboardInterrupt inside the try block: the frames are unwound.
Interrupt ==
    /\ pc \in {"call", "loop", "done", "analyze", "plot"}
    /\ raised' = "interrupt"
    /\ pc' = "finally"
    /\ visited' = {}
    /\ steps' = 0
    /\ current_url' = None
    /\ UNCHANGED <<config, FIRST_LINK_CACHE, results, i, gets, fetched, ended,
                   seeds, closes, csv_rows, stats, arg, ret>>

\* The main block without try/finally, close() being its last statement:
\* the exception ends the program.
SaveCsvFailUnclosed ==
    /\ pc = "done"
    /\ raised' = "io"
    /\ pc' = "exit"
    /\ UNCHANGED <<config, FIRST_LINK_CACHE, results, i, visited, steps,
                   current_url, gets, fetched, ended, seeds, closes, csv_rows,
                   stats, arg, ret>>

SaveCsvFail ==
    /\ pc = "done"
    /\ raised' = "io"
    /\ pc' = "finally"
    /\ UNCHANGED <<config, FIRST_LINK_CACHE, results, i, visited, steps,
                   current_url, gets, fetched, ended, seeds, closes, csv_rows,
                   stats, arg, ret>>

\* Lines 254-255: run_experiment returned its list and the CSV is written.
SaveCsv ==
    /\ pc = "done"
    /\ csv_rows' = results
    /\ pc' = "analyze"
    /\ UNCHANGED <<config, FIRST_LINK_CACHE, results, i, visited, steps,
                   current_url, gets, fetched, ended, seeds, closes, stats,
                   raised, arg, ret>>

\* Line 256: analyze_results prints the totals and len(FIRST_LINK_CACHE).
Analyze ==
    /\ pc = "analyze"
    /\ stats' = <<[total      |-> Len(results),
                   cache_size |-> Cardinality(DOMAIN FIRST_LINK_CACHE)]>>
    /\ pc' = "plot"
    /\ UNCHANGED <<config, FIRST_LINK_CACHE, results, i, visited, steps,
                   current_url, gets, fetched, ended, seeds, closes, csv_rows,
                   raised, arg, ret>>

\* Line 257 returns.
Plot ==
    /\ pc = "plot"
    /\ pc' = "finally"
    /\ UNCHANGED <<config, FIRST_LINK_CACHE, results, i, visited, steps,
                   current_url, gets, fetched, ended, seeds, closes, csv_rows,
                   stats, raised, arg, ret>>

\* Line 257 raises (no display).
PlotFail ==
    /\ pc = "plot"
    /\ raised' = "plot"
    /\ pc' = "finally"
    /\ UNCHANGED <<config, FIRST_LINK_CACHE, results, i, visited, steps,
                   current_url, gets, fetched, ended, seeds, closes, csv_rows,
                   stats, arg, ret>>

\* Lines 258-259: the finally clause closes the cache and the program ends.
Close ==
    /\ pc = "finally"
    /\ closes' = closes + 1
    /\ pc' = "exit"
    /\ UNCHANGED <<config, FIRST_LINK_CACHE, results, i, visited, steps,
                   current_url, gets, fetched, ended, seeds, csv_rows, stats,
                   raised, arg, ret>>

MainNext ==
    \/ WalkSeedFail
    \/ \E raw \in RandomUrls : WalkSeed(raw)
    \/ WalkTimeout
    \/ WalkSuccess
    \/ WalkCycle
    \/ WalkCacheHit
    \/ WalkFetchFail
    \/ WalkFetch
    \/ StoreFail
    \/ Interrupt
    \/ SaveCsvFail
    \/ SaveCsv
    \/ Analyze
    \/ Plot
    \/ PlotFail
    \/ Close

\* The whole program, from the module's start to its exit.
MainSpec == Init /\ [][MainNext]_vars

(***************************************************************************)
(* normalize_url as a function of its argument: a reference and a sibling  *)
(* that differs from it in the fragment only are normalized, and the first *)
(* result is normalized again.                                             *)
(***************************************************************************)

\* Longest fragment-free part, and longest fragment body, of a reference.
MaxUrlLen == 2

\* Sequences over S of length at most n.
SeqsUpTo(S, n) == UNION {[1..k -> S] : k \in 0..n}

\* References without a fragment.
BaseUrls == SeqsUpTo({"/wiki/", "A"}, MaxUrlLen)

\* Nothing, or "#" and what follows it (which may hold further "#").
Fragments ==
    {<<>>} \cup {<<"#">> \o f : f \in SeqsUpTo({"sec", "#"}, MaxUrlLen)}

\* The walk engine at rest, for the study of the pure functions.
FunctionInit ==
    /\ MAX_STEPS = 1
    /\ links = [a \in Resolvable |-> None]
    /\ FIRST_LINK_CACHE = [a \in {} |-> None]
    /\ results = <<>>
    /\ i = 0
    /\ pc = "pure"
    /\ visited = {}
    /\ steps = 0
    /\ current_url = None
    /\ gets = [a \in Resolvable |-> 0]
    /\ fetched = [a \in Resolvable |-> 0]
    /\ ended = <<>>
    /\ seeds = <<>>
    /\ closes = 0
    /\ csv_rows = <<>>
    /\ stats = <<>>
    /\ raised = "none"
    /\ ret = <<>>

engine == <<MAX_STEPS, links, FIRST_LINK_CACHE, results, i, pc, visited, steps,
            current_url, gets, fetched, ended, seeds, closes, csv_rows, stats,
            raised>>

NormInit ==
    /\ FunctionInit
    /\ \/ arg = <<None, None>>
       \/ \E b \in BaseUrls : \E f \in Fragments : \E g \in Fragments :
              arg = <<b \o f, b \o g>>

\* ret[1] = normalize_url(x)
NormalizeArg ==
    /\ pc = "pure"
    /\ Len(ret) = 0
    /\ ret' = <<normalize_url(arg[1])>>
    /\ UNCHANGED <<engine, arg>>

\* ret[2] = normalize_url(normalize_url(x))
NormalizeResult ==
    /\ pc = "pure"
    /\ Len(ret) = 1
    /\ ret' = Append(ret, normalize_url(ret[1]))
    /\ UNCHANGED <<engine, arg>>

\* ret[3] = normalize_url(y), y the sibling of x
NormalizeSibling ==
    /\ pc = "pure"
    /\ Len(ret) = 2
    /\ ret' = Append(ret, normalize_url(arg[2]))
    /\ UNCHANGED <<engine, arg>>

NormNext ==
    \/ NormalizeArg
    \/ NormalizeResult
    \/ NormalizeSibling

NormSpec == NormInit /\ [][NormNext]_vars

(***************************************************************************)
(* get_first_valid_link as a function of the document.  A document is a    *)
(* record: content says whether it has a div#mw-content-text, paragraphs   *)
(* is the sequence of that region's <p> blocks; a block is the             *)
(* sequence of its <a> elements in document order; an element is a         *)
(* record of its href (None when the attribute is missing) and of the      *)
(* element it sits in ("p" for the paragraph itself).  An href is a        *)
(* sequence of tokens: "/wiki/", a namespace prefix such as "Help:", a     *)
(* name, "#", a fragment.                                                  *)
(***************************************************************************)

\* Largest number of <a> elements and paragraph breaks in a document.
MaxDocItems == 4

\* The <a> elements documents are built from.
LinkSamples ==
    { [href |-> <<"/wiki/", "A">>,                 inside |-> "p"],
      [href |-> <<"/wiki/", "A">>,                 inside |-> "span"],
      [href |-> <<"/wiki/", "B", "#", "sec">>,     inside |-> "p"],
      [href |-> <<"/wiki/", "Help:", "A">>,        inside |-> "p"],
      [href |-> <<"/wiki/", "Portal:", "A">>,      inside |-> "p"],
      [href |-> <<"//example.org/", "A">>,         inside |-> "p"],
      [href |-> None,                              inside |-> "p"] }

\* The end of one paragraph and the start of the next.
ParBreak == [href |-> None, inside |-> "/p"]

RECURSIVE Paragraphs(_)
\* The paragraphs of a document written as a sequence of elements and breaks.
Paragraphs(items) ==
    IF items = <<>> THEN << <<>> >>
    ELSE LET rest == Paragraphs(Tail(items))
         IN  IF Head(items) = ParBreak
             THEN << <<>> >> \o rest
             ELSE << <<Head(items)>> \o Head(rest) >> \o Tail(rest)

Documents ==
    {[content |-> FALSE, paragraphs |-> <<>>]} \cup
    {[content |-> TRUE, paragraphs |-> Paragraphs(items)] :
        items \in SeqsUpTo(LinkSamples \cup {ParBreak}, MaxDocItems)}

\* Line 81: the elements whose subtree is decomposed.
NoiseTags == {"table", "sup", "span"}

\* Lines 92-94 with "Portal" left out of the list.
ExcludedNamespacesShort ==
    {"Help:", "File:", "Wikipedia:", "Special:", "Category:"}

\* Lines 92-94: the prefixes f"{ns}:" of the excluded namespaces.
ExcludedNamespaces ==
    {"Help:", "File:", "Wikipedia:", "Special:", "Category:", "Portal:"}

\* Lines 81-82: the <a> elements left in a paragraph after decompose().
Decomposed(p) == SelectSeq(p, LAMBDA a : a.inside \notin NoiseTags)

\* Lines 88-95: the tests an href passes to be returned.
Passes(href) ==
    /\ href # None
    /\ href # <<>>
    /\ href[1] = "/wiki/"
    /\ ~(Len(href) >= 2 /\ href[2] \in ExcludedNamespaces)

\* urljoin(WIKI_BASE, href) for an href that starts with "/"
urljoin(base, href) == <<base>> \o href

RECURSIVE ScanLinks(_)
\* Lines 85-97: the inner loop over one paragraph; <<>> when it returns nothing.
ScanLinks(p) ==
    IF p = <<>> THEN <<>>
    ELSE IF Passes(Head(p).href)
         THEN <<normalize_url(urljoin(WIKI_BASE, Head(p).href))>>
         ELSE ScanLinks(Tail(p))

RECURSIVE ScanParagraphs(_)
\* Lines 84-99: the outer loop; None when no paragraph returns.
ScanParagraphs(ps) ==
    IF ps = <<>> THEN None
    ELSE LET found == ScanLinks(Decomposed(Head(ps)))
         IN  IF found # <<>> THEN found[1] ELSE ScanParagraphs(Tail(ps))

\* def get_first_valid_link(html)
get_first_valid_link(doc) ==
    IF ~doc.content THEN None ELSE ScanParagraphs(doc.paragraphs)

LinkInit ==
    /\ FunctionInit
    /\ arg \in Documents

\* ret[1] = get_first_valid_link(document)
ExtractFirstLink ==
    /\ pc = "pure"
    /\ Len(ret) = 0
    /\ ret' = <<get_first_valid_link(arg)>>
    /\ UNCHANGED <<engine, arg>>

LinkNext == ExtractFirstLink

LinkSpec == LinkInit /\ [][LinkNext]_vars

(***************************************************************************)
(* Helpers of the properties.                                              *)
(***************************************************************************)

\* The finished walks.
Walks == 1..Len(results)

\* The link result a walk obtains for article a: the cached one on a hit,
\* the extracted one on a miss.  A store writes links[a] under a missing key
\* only, so this value is the same before and after the walk.
LinkOf(a) ==
    IF a \in DOMAIN FIRST_LINK_CACHE THEN FIRST_LINK_CACHE[a] ELSE links[a]

\* Walk k got its seed and no article request of it raised.
FetchesSucceeded(k) == seeds[k] # None /\ ended[k] # "FETCH_ERROR"

(***************************************************************************)
(* C1: for every step limit >= 1 and every link structure, served from the *)
(* cache or by fetches, a started walk terminates, and the step counter    *)
(* and every reported pages_visited are at most MAX_STEPS.                 *)
(***************************************************************************)
C1_WalkTerminatesWithinLimit ==
    /\ [](steps <= MAX_STEPS)
    /\ [](\A k \in Walks : results[k].pages_visited <= MAX_STEPS)
    /\ ((pc = "loop") ~> (pc # "loop"))
    /\ <>(pc = "done")

\* The experiment is over and one of its walks, over a chain that did not
\* repeat, was cut at a step limit of at least 3.
C1_Witness ==
    /\ pc = "done"
    /\ MAX_STEPS >= 3
    /\ \E k \in Walks : /\ ended[k] = "TIMEOUT"
                        /\ results[k].pages_visited = MAX_STEPS

(***************************************************************************)
(* C2: with Seed -> Target (Seed # Target), a fetched seed and any step    *)
(* limit >= 2, the walk reports reached_target = true and                  *)
(* pages_visited = 2.                                                      *)
(***************************************************************************)
C2_SeedToTargetReached ==
    \A k \in Walks :
        ( /\ FetchesSucceeded(k)
          /\ seeds[k] # target_url
          /\ LinkOf(seeds[k]) = target_url
          /\ MAX_STEPS >= 2 )
        => /\ results[k].reached_philosophy
           /\ results[k].pages_visited = 2

(***************************************************************************)
(* C3 as stated: with Seed -> X -> Seed, neither the target, and a step    *)
(* limit of 10, the walk reports reached_target = false,                   *)
(* terminal_page = Seed and pages_visited = 2.                             *)
(***************************************************************************)
IsTwoCycle(k) ==
    /\ FetchesSucceeded(k)
    /\ seeds[k] # target_url
    /\ LinkOf(seeds[k]) \in Resolvable \ {seeds[k]}
    /\ LinkOf(LinkOf(seeds[k])) = seeds[k]
    /\ MAX_STEPS = 10

C3_CycleCountsTwo ==
    \A k \in Walks :
        IsTwoCycle(k)
        => /\ ~results[k].reached_philosophy
           /\ results[k].terminal_page = seeds[k]
           /\ results[k].pages_visited = 2

(***************************************************************************)
(* C3 amended: with Seed -> X -> Seed, neither the target, and a step      *)
(* limit of 10, the walk reports reached_target = false,                   *)
(* terminal_page = Seed and pages_visited = 3.                             *)
(***************************************************************************)
C3_CycleCountsThree ==
    \A k \in Walks :
        IsTwoCycle(k)
        => /\ ~results[k].reached_philosophy
           /\ ~results[k].hit_max_steps
           /\ results[k].terminal_page = seeds[k]
           /\ results[k].pages_visited = 3
           /\ ended[k] = "CYCLE"

C3_Witness ==
    \E k \in Walks : IsTwoCycle(k) /\ ended[k] = "CYCLE"

(***************************************************************************)
(* C4: when the seed's link result is "no link", extracted or cached, and  *)
(* the step limit lets the walk resolve its seed, the walk reports         *)
(* reached_target = false, hit_max_steps = false, terminal_page = Seed and *)
(* pages_visited = 1.                                                      *)
(***************************************************************************)
C4_DeadEndSeedCountsOne ==
    \A k \in Walks :
        ( /\ FetchesSucceeded(k)
          /\ seeds[k] # target_url
          /\ LinkOf(seeds[k]) = None
          /\ MAX_STEPS >= 2 )
        => /\ ~results[k].reached_philosophy
           /\ ~results[k].hit_max_steps
           /\ results[k].terminal_page = seeds[k]
           /\ results[k].pages_visited = 1

(***************************************************************************)
(* C5: in every outcome record hit_max_steps is true exactly when the walk *)
(* ended in TIMEOUT; a DEAD_END, CYCLE or FETCH_ERROR walk never has it.   *)
(***************************************************************************)
C5_HitMaxStepsIffTimeout ==
    \A k \in Walks : results[k].hit_max_steps <=> (ended[k] = "TIMEOUT")

(***************************************************************************)
(* C6: run_experiment produces one record per requested walk, with run_id  *)
(* 1..N in order, whatever the walks' results; a walk's fetch failure does *)
(* not stop the remaining walks.                                           *)
(***************************************************************************)
C6_OneRecordPerRun ==
    /\ Len(results) = i
    /\ Len(results) <= N_RUNS
    /\ \A k \in Walks : results[k].run_id = k
    /\ (pc = "done") <=> (Len(results) = N_RUNS)

\* The experiment is over, its first walk failed at the seed fetch and
\* another failed at an article fetch.
C6_Witness ==
    /\ pc = "done"
    /\ Len(results) = N_RUNS
    /\ seeds[1] = None
    /\ \E k \in Walks : seeds[k] # None /\ ended[k] = "FETCH_ERROR"

(***************************************************************************)
(* C7 as stated: every walk outcome has pages_visited >= 1, the walk whose *)
(* seed fetch failed included.                                             *)
(***************************************************************************)
C7_PagesVisitedPositive ==
    \A k \in Walks : results[k].pages_visited >= 1

(***************************************************************************)
(* C7 amended: a walk outcome has pages_visited >= 1 exactly when the seed *)
(* fetch succeeded; the walk whose seed fetch failed reports               *)
(* pages_visited = 0.                                                      *)
(***************************************************************************)
C7_PagesVisitedPositiveOnceSeeded ==
    \A k \in Walks :
        /\ seeds[k] # None => results[k].pages_visited >= 1
        /\ seeds[k] = None => results[k].pages_visited = 0

C7_Witness ==
    /\ \E k \in Walks : seeds[k] = None /\ results[k].pages_visited = 0
    /\ \E k \in Walks : seeds[k] = target_url /\ results[k].pages_visited = 1

(***************************************************************************)
(* C8: in a step of the loop body, a current article stored with None is a *)
(* hit (no request; the walk ends as DEAD_END on it), one stored with B is *)
(* a hit that makes B the next article, and only an article with no stored *)
(* key is requested.                                                       *)
(***************************************************************************)
C8_CacheThreeValued ==
    [][ (pc = "loop" /\ visited' # visited) =>
          /\ ( current_url \in DOMAIN FIRST_LINK_CACHE
               /\ FIRST_LINK_CACHE[current_url] = None )
             => /\ gets' = gets
                /\ FIRST_LINK_CACHE' = FIRST_LINK_CACHE
                /\ ended' = Append(ended, "DEAD_END")
                /\ results'[Len(results')].terminal_page = current_url
          /\ ( current_url \in DOMAIN FIRST_LINK_CACHE
               /\ FIRST_LINK_CACHE[current_url] # None )
             => /\ gets' = gets
                /\ FIRST_LINK_CACHE' = FIRST_LINK_CACHE
                /\ results' = results
                /\ current_url' = FIRST_LINK_CACHE[current_url]
          /\ current_url \notin DOMAIN FIRST_LINK_CACHE
             => gets'[current_url] = gets[current_url] + 1
      ]_vars

\* A walk ended as DEAD_END on an article that was never requested and is
\* stored with None, while the page itself has a link.
C8_Witness ==
    \E k \in Walks : \E a \in Resolvable :
        /\ ended[k] = "DEAD_END"
        /\ results[k].terminal_page = a
        /\ gets[a] = 0
        /\ a \in DOMAIN FIRST_LINK_CACHE
        /\ FIRST_LINK_CACHE[a] = None
        /\ links[a] # None

(***************************************************************************)
(* C9: once an article has a stored entry, no step of any walk requests    *)
(* its page; every article page is fetched successfully at most once, and  *)
(* only while it has no entry.                                             *)
(***************************************************************************)
C9_NoFetchOnceCached ==
    /\ [][ \A a \in Resolvable :
             a \in DOMAIN FIRST_LINK_CACHE => gets'[a] = gets[a] ]_vars
    /\ [](\A a \in Resolvable : fetched[a] <= 1)

\* Two walks from the same seed: the first fetched it, the second resolved
\* it without a request.
C9_Witness ==
    \E a \in Resolvable :
        /\ Len(results) >= 2
        /\ seeds[1] = a /\ seeds[2] = a
        /\ ended[2] \in {"DEAD_END", "CYCLE", "SUCCESS"}
        /\ fetched[a] = 1
        /\ gets[a] = 1

(***************************************************************************)
(* C10: no step changes or removes a stored entry; the only key a step can *)
(* add is the current article, and only when it had no entry.              *)
(***************************************************************************)
C10_CacheOnlyGrows ==
    [][ /\ \A a \in DOMAIN FIRST_LINK_CACHE :
              /\ a \in DOMAIN FIRST_LINK_CACHE'
              /\ FIRST_LINK_CACHE'[a] = FIRST_LINK_CACHE[a]
        /\ (DOMAIN FIRST_LINK_CACHE') \subseteq
              ((DOMAIN FIRST_LINK_CACHE) \cup {current_url})
      ]_vars

\* A walk passed, without a request, over an entry that differs from the
\* page's current first link, and went on to store a new key.
C10_Witness ==
    \E a \in Resolvable : \E b \in Resolvable \ {a} :
        /\ {a, b} \subseteq visited
        /\ gets[a] = 0
        /\ FIRST_LINK_CACHE[a] # links[a]
        /\ fetched[b] = 1

(***************************************************************************)
(* C11: in the record a walk appends, terminal_page is absent when         *)
(* reached_target is true and when the seed fetch failed; for every other  *)
(* failed walk it is present and is the walk's current article when it     *)
(* ended (for FETCH_ERROR, the article whose request failed).              *)
(***************************************************************************)
C11_TerminalPage ==
    [][ Len(results') > Len(results) =>
          LET r == results'[Len(results')]
              kind == ended'[Len(ended')]
          IN  /\ r.reached_philosophy => r.terminal_page = None
              /\ pc = "call" => ( /\ ~r.reached_philosophy
                                  /\ r.terminal_page = None )
              /\ (pc = "loop" /\ ~r.reached_philosophy)
                 => /\ r.terminal_page # None
                    /\ r.terminal_page = current_url
                    /\ kind \in {"CYCLE", "DEAD_END", "FETCH_ERROR", "TIMEOUT"}
                    /\ kind = "FETCH_ERROR"
                       => gets'[current_url] = gets[current_url] + 1
      ]_vars

\* Walks ended in success, at the seed fetch, on a cycle and on a failed
\* article request.
C11_Witness ==
    /\ \E k \in Walks : ended[k] = "SUCCESS" /\ results[k].terminal_page = None
    /\ \E k \in Walks : ended[k] = "FETCH_ERROR"
                        /\ results[k].terminal_page \in Resolvable
                        /\ gets[results[k].terminal_page] >= 1

(***************************************************************************)
(* C12: when the request for an article's page fails on a cache miss, the  *)
(* walk ends in that step with reached_target = false and terminal_page =  *)
(* that article, the step counter is not incremented, and the cache is     *)
(* left unchanged, without an entry for the article.                       *)
(***************************************************************************)
C12_FetchFailure ==
    [][ (gets' # gets /\ fetched' = fetched) =>
          /\ Len(results') = Len(results) + 1
          /\ ~results'[Len(results')].reached_philosophy
          /\ results'[Len(results')].terminal_page = current_url
          /\ results'[Len(results')].pages_visited = steps
          /\ ended'[Len(ended')] = "FETCH_ERROR"
          /\ FIRST_LINK_CACHE' = FIRST_LINK_CACHE
          /\ current_url \notin DOMAIN FIRST_LINK_CACHE'
      ]_vars

\* The first walk failed at an article's request, and a later walk fetched
\* that article again.
C12_Witness ==
    \E a \in Resolvable :
        /\ Len(results) >= 1
        /\ ended[1] = "FETCH_ERROR"
        /\ results[1].terminal_page = a
        /\ gets[a] = 2
        /\ fetched[a] = 1
        /\ a \in DOMAIN FIRST_LINK_CACHE

(***************************************************************************)
(* C17: a walk whose current article is the target, with the step counter  *)
(* at most MAX_STEPS, ends as SUCCESS; so no record with reached_target =  *)
(* false has the target as the article the walk ended on.                  *)
(***************************************************************************)
C17_TargetMeansSuccess ==
    \A k \in Walks :
        ~results[k].reached_philosophy => results[k].terminal_page # target_url

(***************************************************************************)
(* C18: the visited set is empty at the start of every walk, and a walk    *)
(* ends as CYCLE only on an article that was the current article of an     *)
(* earlier step of the same walk.                                          *)
(***************************************************************************)
RECURSIVE Follow(_, _)
\* The article reached from a by following n link results.
Follow(a, n) ==
    IF n = 0 \/ a \notin Resolvable THEN a ELSE Follow(LinkOf(a), n - 1)

\* The current article of walk k when its step counter is n.
CurrentAt(k, n) == Follow(seeds[k], n - 1)

C18_CycleWithinWalk ==
    /\ [][ (pc = "call" /\ pc' = "loop") => visited' = {} ]_vars
    /\ [](\A k \in Walks :
            ended[k] = "CYCLE" =>
                /\ CurrentAt(k, results[k].pages_visited) = results[k].terminal_page
                /\ \E m \in 1..(results[k].pages_visited - 1) :
                       CurrentAt(k, m) = results[k].terminal_page)

\* The second walk starts on the article the first walk started on and
\* visited, which is then in the cache; it does not end as CYCLE on it but
\* later, on an article of its own path.
C18_Witness ==
    /\ Len(results) >= 2
    /\ seeds[1] = seeds[2]
    /\ seeds[1] \in DOMAIN FIRST_LINK_CACHE
    /\ ended[1] = "CYCLE"
    /\ ended[2] = "CYCLE"
    /\ results[2].pages_visited >= 2

(***************************************************************************)
(* C19: with a cache that agrees with the link graph (empty, partly or     *)
(* fully filled) and fetches that succeed, the outcome of a walk is the    *)
(* one the walk over the graph alone produces from the same seed, and two  *)
(* walks from the same seed produce the same outcome.                      *)
(***************************************************************************)
RECURSIVE GraphWalk(_, _, _)
\* The outcome of following first links from cur over `links` alone.
GraphWalk(cur, n, seen) ==
    IF ~(n < MAX_STEPS) THEN <<FALSE, n, cur>>
    ELSE IF cur = target_url THEN <<TRUE, n, None>>
    ELSE IF cur \in seen THEN <<FALSE, n, cur>>
    ELSE IF links[cur] = None THEN <<FALSE, n + 1, cur>>
    ELSE GraphWalk(links[cur], n + 1, seen \cup {cur})

CacheAgrees ==
    \A a \in DOMAIN FIRST_LINK_CACHE : FIRST_LINK_CACHE[a] = links[a]

OutcomeOf(k) ==
    <<results[k].reached_philosophy, results[k].pages_visited,
      results[k].terminal_page>>

C19_CacheTransparent ==
    CacheAgrees =>
        \A k \in Walks :
            FetchesSucceeded(k) =>
                /\ OutcomeOf(k) = GraphWalk(seeds[k], 1, {})
                /\ results[k].hit_max_steps = (GraphWalk(seeds[k], 1, {})[2] >= MAX_STEPS)
                /\ \A j \in Walks :
                       (FetchesSucceeded(j) /\ seeds[j] = seeds[k])
                       => OutcomeOf(j) = OutcomeOf(k)

\* The first walk fetched its seed and the next article; the second walk,
\* from the same seed, was served both from the cache.
C19_Witness ==
    /\ CacheAgrees
    /\ Len(results) >= 2
    /\ seeds[1] = seeds[2]
    /\ seeds[1] \in Resolvable
    /\ \A a \in Resolvable : gets[a] = 1 /\ fetched[a] = 1
    /\ results[2].pages_visited >= 3
    /\ FetchesSucceeded(1) /\ FetchesSucceeded(2)

(***************************************************************************)
(* C20: after a successful seed fetch, whenever the loop condition is      *)
(* evaluated the step counter is 1 plus the number of visited articles,    *)
(* and the reported pages_visited is 1 plus the number of articles whose   *)
(* link result was resolved (every visited article but one whose request   *)
(* failed).                                                                *)
(***************************************************************************)
C20_CountingRule ==
    /\ pc = "loop" => steps = 1 + Cardinality(visited)
    /\ ( /\ pc \in {"call", "done"}
         /\ Len(results) >= 1
         /\ seeds[Len(results)] # None )
       => results[Len(results)].pages_visited =
              1 + Cardinality(visited)
                - (IF ended[Len(results)] = "FETCH_ERROR" THEN 1 ELSE 0)

\* A walk resolved two articles and ended on a dead end, reporting 3.
C20_Witness ==
    /\ pc \in {"call", "done"}
    /\ Len(results) >= 1
    /\ ended[Len(results)] = "DEAD_END"
    /\ Cardinality(visited) = 2
    /\ results[Len(results)].pages_visited = 3

(***************************************************************************)
(* C13: when a cache write fails during walk k, the experiment aborts but  *)
(* the records of the k-1 completed walks are emitted by the reporting     *)
(* steps, with the number of walks completed.                              *)
(***************************************************************************)
C13_PartialResultsReported ==
    (pc = "exit" /\ raised = "cache" /\ Len(results) >= 1)
    => /\ csv_rows = results
       /\ stats # <<>>
       /\ stats[1].total = Len(results)

(***************************************************************************)
(* C14: the cache is closed exactly once on every exit path (completion,   *)
(* an exception in a walk, in CSV saving or in reporting, an interrupt),   *)
(* and nothing, so no cache lookup, store or size query, happens after the *)
(* close.                                                                  *)
(***************************************************************************)
C14_ClosedExactlyOnce ==
    /\ closes <= 1
    /\ (closes = 1) <=> (pc = "exit")
    /\ (pc = "exit") <=> ~ENABLED MainNext

\* The program ended after a failed cache write in its second walk: the
\* cache was closed once.
C14_Witness ==
    /\ pc = "exit"
    /\ closes = 1
    /\ raised = "cache"
    /\ Len(results) = 1

(***************************************************************************)
(* C15: normalize_url is idempotent, its result holds no "#", two          *)
(* references that differ in their fragment only normalize to the same     *)
(* value, and None maps to None.                                           *)
(***************************************************************************)
C15_NormalizeIdempotent ==
    /\ Len(ret) >= 1 =>
          /\ arg[1] = None <=> ret[1] = None
          /\ arg[1] # None => \A k \in 1..Len(ret[1]) : ret[1][k] # "#"
          /\ arg[1] # None =>
                /\ Len(ret[1]) <= Len(arg[1])
                /\ ret[1] = SubSeq(arg[1], 1, Len(ret[1]))
                /\ Len(ret[1]) < Len(arg[1]) => arg[1][Len(ret[1]) + 1] = "#"
    /\ Len(ret) >= 2 => ret[2] = ret[1]
    /\ Len(ret) >= 3 => ret[3] = ret[1]

\* A reference with two "#" and a sibling with another fragment were
\* normalized to their common fragment-free part.
C15_Witness ==
    /\ pc = "pure"
    /\ Len(ret) = 3
    /\ arg[1] = <<"/wiki/", "A", "#", "sec", "#">>
    /\ arg[2] = <<"/wiki/", "A", "#", "#">>
    /\ ret[1] = <<"/wiki/", "A">>

(***************************************************************************)
(* C16 as stated: get_first_valid_link returns the normalized target of    *)
(* the first hyperlink, in reading order over the paragraphs, that begins  *)
(* with /wiki/ and is in none of the namespaces Help, File, Wikipedia,     *)
(* Special, Category, Portal; it returns "no link" when no hyperlink       *)
(* qualifies or the content region is absent.                              *)
(***************************************************************************)
RECURSIVE Flatten(_)
\* The hyperlinks of the paragraphs ps in reading order.
Flatten(ps) == IF ps = <<>> THEN <<>> ELSE Head(ps) \o Flatten(Tail(ps))

\* An internal article reference outside the six namespaces.
Qualifies(a) ==
    /\ a.href # None
    /\ Len(a.href) >= 1
    /\ a.href[1] = "/wiki/"
    /\ \/ Len(a.href) = 1
       \/ a.href[2] \notin {"Help:", "File:", "Wikipedia:", "Special:",
                            "Category:", "Portal:"}

\* The target of hyperlink a as an article reference without its fragment.
TargetOf(a) == normalize_url(<<WIKI_BASE>> \o a.href)

\* What the first hyperlink of doc that satisfies Q yields.
FirstLink(doc, Q(_)) ==
    IF ~doc.content THEN None
    ELSE LET all == Flatten(doc.paragraphs)
             hits == {k \in 1..Len(all) : Q(all[k])}
         IN  IF hits = {} THEN None
             ELSE TargetOf(all[CHOOSE k \in hits : \A j \in hits : k <= j])

C16_FirstQualifyingLink ==
    Len(ret) >= 1 => ret[1] = FirstLink(arg, Qualifies)

(***************************************************************************)
(* C16 amended: get_first_valid_link returns the normalized target of the  *)
(* first hyperlink, in reading order over the paragraphs, that is not      *)
(* inside a table, sup or span element, begins with /wiki/ and is in none  *)
(* of the six namespaces; it returns "no link" when no such hyperlink      *)
(* exists or the content region is absent.                                 *)
(***************************************************************************)
QualifiesInProse(a) ==
    /\ Qualifies(a)
    /\ a.inside \notin {"table", "sup", "span"}

C16_FirstQualifyingProseLink ==
    Len(ret) >= 1 =>
        /\ ret[1] = FirstLink(arg, QualifiesInProse)
        /\ ret[1] # None => \A k \in 1..Len(ret[1]) : ret[1][k] # "Portal:"

\* The first paragraph holds only links that do not qualify (one of them
\* in the Portal namespace); the second paragraph's link to B, which
\* carries a fragment, is returned.
C16_Witness ==
    /\ Len(ret) = 1
    /\ arg.content
    /\ Len(arg.paragraphs) = 2
    /\ Len(arg.paragraphs[1]) = 2
    /\ arg.paragraphs[1][1].href = <<"/wiki/", "Portal:", "A">>
    /\ arg.paragraphs[1][2].href = <<"//example.org/", "A">>
    /\ arg.paragraphs[2] = <<[href |-> <<"/wiki/", "B", "#", "sec">>, inside |-> "p"]>>
    /\ ret[1] = PageUrl("B")
====
